---- MODULE Spec2Model ----
(***************************************************************************)
(* Model of the image-compressor App component (multi-file variant with    *)
(* selectable compression quality).  The component state is the React      *)
(* state of App(); every asynchronous handler invocation (onDrop,          *)
(* handleCompressionChange) is a run whose position between two awaits is  *)
(* kept in `runs`.  JavaScript is single threaded: the code between two    *)
(* awaits is one atomic action.                                            *)
(***************************************************************************)
EXTENDS Integers, Sequences, FiniteSets, TLC

\* ------------------------------------------------------------------ bounds
MaxCalls == 3      \* handler invocations (onDrop + handleCompressionChange) in a behaviour
MaxActive == 2     \* handler invocations that are draining at the same time
MaxItems == 2      \* items created in a behaviour
MaxFiles == 2      \* files handed to one onDrop call
MaxRemoves == 1    \* removeImage calls in a behaviour
MaxFailures == 1   \* imageCompression calls that reject in a behaviour
YieldEvery == 50   \* another handler runs between two timers of simulateProgress only
                   \* when the progress just forwarded is a multiple of YieldEvery
MaxCallsEach == 2  \* handler invocations in a behaviour whose timers are single steps
MaxRemovesAgain == 2   \* removeImage calls in a behaviour that repeats a removal

\* ------------------------------------------------------- program constants
ProgressStep == 2
ProgressMax == 100

Levels == {"high", "medium", "low"}
TargetLevels == {"high", "low"}    \* the quality buttons the user clicks
InitialLevel == "medium"

\* maxSizeMB of each level, in units of half a megabyte (0.5 MB = 1)
compressionOptions ==
    [l \in Levels |->
        CASE l = "high" -> [maxSize |-> 4, maxWidthOrHeight |-> 2560]
          [] l = "medium" -> [maxSize |-> 2, maxWidthOrHeight |-> 1920]
          [] l = "low" -> [maxSize |-> 1, maxWidthOrHeight |-> 1280]]

\* the files the user can hand over: name, MIME type, size (half megabytes)
Files == {"a.jpg", "b.jpg", "c.png"}
FileType(f) == IF f = "c.png" THEN "image/png" ELSE "image/jpeg"
FileSize(f) == IF f = "a.jpg" THEN 4 ELSE 6

NoFile == "none"
NoAlert == "none"
SkippedMessage == "Some files were skipped. Please upload only JPEG images."
NoCall == [op |-> "none", acceptedFiles |-> <<>>, alert |-> NoAlert, imageId |-> 0]
NoUrl == 0
Ids == 1..MaxItems

VARIABLES
    compressedImages,   \* useState([]): the item collection, newest first
    loading,            \* useState(false)
    uploadProgress,     \* useState({}): id -> last forwarded progress, -1 = no entry
    compressionLevel,   \* useState('medium')
    runs,               \* the handler invocations that are between two awaits
    timers,             \* the runs waiting on a 40 ms timer, in the order they set it
    nextId,             \* uuidv4(): next fresh item id
    nextUrl,            \* URL.createObjectURL: next fresh object URL
    revoked,            \* object URL -> number of URL.revokeObjectURL calls on it
    removed,            \* ids removeImage has been applied to
    removedUrls,        \* object URLs revoked by removeImage
    lastFailed,         \* ids whose latest compression call returned null
    settled,            \* ids whose item has been stored as done at least once
    batchOf,            \* id -> number of the onDrop call that created it
    lastCall,           \* the onDrop or removeImage call made by the last step: its
                        \* argument and the alert it raised
    calls,              \* handler invocations so far
    removes,            \* removeImage calls so far
    failures            \* rejected imageCompression calls so far

vars == <<compressedImages, loading, uploadProgress, compressionLevel, runs, timers,
          nextId, nextUrl, revoked, removed, removedUrls, lastFailed, settled,
          batchOf, lastCall, calls, removes, failures>>

Slots == 1..MaxActive

\* ----------------------------------------------------------------- helpers
Min(a, b) == IF a < b THEN a ELSE b

RECURSIVE SelectSeqBy(_, _)
\* Array.prototype.filter on the image/jpeg prefix test
SelectSeqBy(s, valid) ==
    IF s = <<>> THEN <<>>
    ELSE IF Head(s) \in valid THEN <<Head(s)>> \o SelectSeqBy(Tail(s), valid)
    ELSE SelectSeqBy(Tail(s), valid)

IsAnyImage(f) == FileType(f) \in {"image/jpeg", "image/png"}

\* file.type.startsWith('image/jpeg')
IsJpeg(f) == FileType(f) = "image/jpeg"

validFilesOf(acceptedFiles) == SelectSeqBy(acceptedFiles, {f \in Files : IsJpeg(f)})

ImageIds(images) == {images[k].id : k \in 1..Len(images)}

\* prev.find(img => img.id === id); only used when the id is present
FindImage(images, id) == images[CHOOSE k \in 1..Len(images) : images[k].id = id]

\* { ...img, ...patch }
Merge(img, patch) ==
    [k \in DOMAIN img |-> IF k \in DOMAIN patch THEN patch[k] ELSE img[k]]

UpsertById(images, id, patch) ==
    IF id \in ImageIds(images)
    THEN [k \in 1..Len(images) |->
            IF images[k].id = id THEN Merge(images[k], patch) ELSE images[k]]
    ELSE <<Merge([id |-> id, file |-> NoFile, processing |-> TRUE, progress |-> 0,
                  url |-> NoUrl, originalSize |-> 0, compressedSize |-> 0], patch)>>
         \o images

UpdateAll(images, id, patch) == [k \in 1..Len(images) |-> Merge(images[k], patch)]

\* prev.map(img => img.id === id ? { ...img, ...patch } : img)
UpdateById(images, id, patch) ==
    [k \in 1..Len(images) |->
        IF images[k].id = id THEN Merge(images[k], patch) ELSE images[k]]

\* prev.filter(img => img.id !== imageId)
RECURSIVE FilterOutId(_, _)
FilterOutId(images, id) ==
    IF images = <<>> THEN <<>>
    ELSE IF Head(images).id = id THEN FilterOutId(Tail(images), id)
    ELSE <<Head(images)>> \o FilterOutId(Tail(images), id)

\* the two renderings of an item: the result view or the "Processing..." bar
Status(img) ==
    IF ~img.processing /\ img.progress = ProgressMax THEN "done" ELSE "processing"

\* imageCompression(file, options): the compressed size respects options.maxSizeMB
CompressedSize(file, level) == Min(FileSize(file), compressionOptions[level].maxSize)

RevokeAll(rev, url) == [u \in DOMAIN rev |-> Min(rev[u] + 1, 3)]

\* URL.revokeObjectURL(url)
Revoke(rev, url) == [rev EXCEPT ![url] = Min(@ + 1, 3)]

IdleRun ==
    [pc |-> "idle", kind |-> "drop", items |-> <<>>, i |-> 0, progress |-> 0,
     level |-> InitialLevel, newLevel |-> InitialLevel, attempted |-> 0,
     failedAt |-> 0]

Active(r) == runs[r].pc # "idle"
CurrentItem(r) == runs[r].items[runs[r].i]

\* -------------------------------------------------------------------- Init
Init ==
    /\ compressedImages = <<>>
    /\ loading = FALSE
    /\ uploadProgress = [id \in Ids |-> -1]
    /\ compressionLevel = InitialLevel
    /\ runs = [r \in Slots |-> IdleRun]
    /\ timers = <<>>
    /\ nextId = 1
    /\ nextUrl = 1
    /\ revoked = [u \in 1..(MaxCalls * MaxItems) |-> 0]
    /\ removed = {}
    /\ removedUrls = {}
    /\ lastFailed = {}
    /\ settled = {}
    /\ batchOf = [id \in Ids |-> 0]
    /\ lastCall = NoCall
    /\ calls = 0
    /\ removes = 0
    /\ failures = 0

\* ------------------------------------------------------------ the handlers
\* onDrop is memoised with an empty dependency list: it keeps the compressImage
\* of the first render, whose compressionLevel is the initial one
DropClosureLevel(current) == InitialLevel

\* handleCompressionChange calls the compressImage of the render it was created
\* in: setCompressionLevel(newLevel) does not change that render's compressionLevel
ChangeClosureLevel(current, newLevel) == current

\* validFiles.map(file => ({ id: uuidv4(), name, file, processing: true, progress: 0 }))
newFilesOf(validFiles, firstId) ==
    [k \in 1..Len(validFiles) |->
        [id |-> firstId + k - 1, file |-> validFiles[k], processing |-> TRUE,
         progress |-> 0, url |-> NoUrl, originalSize |-> 0, compressedSize |-> 0]]

\* the part of an item a loop keeps in its own variables (file, id, image.url)
SnapshotOf(images) ==
    [k \in 1..Len(images) |->
        [id |-> images[k].id, file |-> images[k].file, url |-> images[k].url]]

\* handleCompressionChange: `if (!image.file) continue;` -- the next index at or
\* after j whose item kept its original file, Len(items) + 1 when there is none
RECURSIVE NextWithFile(_, _)
NextWithFile(items, j) ==
    IF j > Len(items) THEN j
    ELSE IF items[j].file # NoFile THEN j
    ELSE NextWithFile(items, j + 1)

KeepProgress(up, id, progress) == up

\* the first statement of simulateProgress(id): progress 0 is forwarded
ForwardProgress(up, id, progress) == [up EXCEPT ![id] = progress]

FreeSlot(r) ==
    /\ ~Active(r)
    /\ \A q \in Slots : q < r => Active(q)

PrependReversed(newFiles, prev) ==
    [k \in 1..Len(newFiles) |-> newFiles[Len(newFiles) + 1 - k]] \o prev

\* setCompressedImages(prev => [...newFiles, ...prev])
AddNewFiles(newFiles, prev) == newFiles \o prev

\* if (validFiles.length !== acceptedFiles.length) alert(...): the message shown
SkippedAlert(acceptedFiles, validFiles) ==
    IF Len(validFiles) # Len(acceptedFiles) THEN SkippedMessage ELSE NoAlert

\* onDrop(acceptedFiles), up to the first await
onDrop(r, acceptedFiles) ==
    /\ calls < MaxCalls
    /\ FreeSlot(r)
    /\ LET validFiles == validFilesOf(acceptedFiles)
           newFiles == newFilesOf(validFiles, nextId)
       IN /\ nextId + Len(validFiles) - 1 <= MaxItems
          /\ calls' = calls + 1
          /\ IF Len(acceptedFiles) = 0
             THEN /\ lastCall' = [op |-> "onDrop", acceptedFiles |-> acceptedFiles,
                                  alert |-> NoAlert, imageId |-> 0]
                  /\ UNCHANGED <<compressedImages, loading, uploadProgress, runs, timers,
                                 nextId, batchOf>>
             ELSE /\ lastCall' = [op |-> "onDrop", acceptedFiles |-> acceptedFiles,
                                  alert |-> SkippedAlert(acceptedFiles, validFiles),
                                  imageId |-> 0]
                  /\ compressedImages' = AddNewFiles(newFiles, compressedImages)
                  /\ nextId' = nextId + Len(validFiles)
                  /\ batchOf' = [id \in Ids |->
                                    IF id \in ImageIds(newFiles) THEN calls + 1
                                    ELSE batchOf[id]]
                  /\ IF Len(validFiles) = 0
                     THEN /\ loading' = FALSE
                          /\ UNCHANGED <<uploadProgress, runs, timers>>
                     ELSE /\ loading' = TRUE
                          /\ timers' = Append(timers, r)
                          /\ uploadProgress' = ForwardProgress(uploadProgress, newFiles[1].id, 0)
                          /\ runs' = [runs EXCEPT ![r] =
                                 [pc |-> "sim", kind |-> "drop",
                                  items |-> SnapshotOf(newFiles), i |-> 1, progress |-> 0,
                                  level |-> DropClosureLevel(compressionLevel),
                                  newLevel |-> compressionLevel, attempted |-> 0, failedAt |-> 0]]
    /\ UNCHANGED <<compressionLevel, nextUrl, revoked, removed, removedUrls, lastFailed,
                   settled, removes, failures>>

\* handleCompressionChange(newLevel), up to the first await
handleCompressionChange(r, newLevel) ==
    /\ calls < MaxCalls
    /\ FreeSlot(r)
    /\ calls' = calls + 1
    /\ compressionLevel' = newLevel
    /\ LET updatedImages == SnapshotOf(compressedImages)
           first == NextWithFile(updatedImages, 1)
       IN IF first > Len(updatedImages)
          THEN /\ loading' = FALSE
               /\ UNCHANGED <<compressedImages, uploadProgress, runs, timers>>
          ELSE /\ loading' = TRUE
               /\ timers' = Append(timers, r)
               /\ uploadProgress' = ForwardProgress(uploadProgress, updatedImages[first].id, 0)
               /\ compressedImages' = UpdateById(compressedImages, updatedImages[first].id,
                                                 [processing |-> TRUE, progress |-> 0])
               /\ runs' = [runs EXCEPT ![r] =
                      [pc |-> "sim", kind |-> "change", items |-> updatedImages,
                       i |-> first, progress |-> 0,
                       level |-> ChangeClosureLevel(compressionLevel, newLevel),
                       newLevel |-> newLevel, attempted |-> 0, failedAt |-> 0]]
    /\ lastCall' = NoCall
    /\ UNCHANGED <<nextId, nextUrl, revoked, removed, removedUrls, lastFailed, settled,
                   batchOf, removes, failures>>

\* simulateProgress, from the timer after `progress` was forwarded to the next
\* point where another handler runs: the value the loop variable has there
\* (above ProgressMax: the loop has ended)
RECURSIVE NextYieldBy(_, _)
NextYieldBy(progress, every) ==
    LET next == progress + ProgressStep
    IN IF next > ProgressMax \/ next % every = 0 THEN next ELSE NextYieldBy(next, every)

NextYield(progress) == NextYieldBy(progress, YieldEvery)

\* the last value the loop forwarded on the way from `progress` to `next`
LastForwarded(progress, next) ==
    IF next <= ProgressMax THEN next
    ELSE progress + ((ProgressMax - progress) \div ProgressStep) * ProgressStep

\* the 40 ms timers of simulateProgress fire; when the loop ends the caller goes
\* on to the compression call.  Timers of equal delay fire in the order they
\* were set, so of two loops the one that set its timer first goes first
TickBy(r, every) ==
    /\ runs[r].pc = "sim"
    /\ timers # <<>> /\ Head(timers) = r
    /\ LET id == CurrentItem(r).id
           progress == NextYieldBy(runs[r].progress, every)
           last == LastForwarded(runs[r].progress, progress)
       IN /\ uploadProgress' =
                IF last = runs[r].progress THEN uploadProgress
                ELSE ForwardProgress(uploadProgress, id, last)
          /\ IF progress <= ProgressMax
             THEN /\ runs' = [runs EXCEPT ![r].progress = progress]
                  /\ timers' = Append(Tail(timers), r)
                  /\ UNCHANGED compressedImages
             ELSE /\ compressedImages' =
                        IF runs[r].kind = "drop"
                        THEN UpdateById(compressedImages, id, [progress |-> ProgressMax])
                        ELSE compressedImages
                  /\ runs' = [runs EXCEPT ![r].pc = "compress",
                                          ![r].attempted = @ + 1]
                  /\ timers' = Tail(timers)
    /\ lastCall' = NoCall
    /\ UNCHANGED <<loading, compressionLevel, nextId, nextUrl, revoked, removed,
                   removedUrls, lastFailed, settled, batchOf, calls, removes, failures>>

Tick(r) == TickBy(r, YieldEvery)

\* one timer of simulateProgress fires: the next single value is forwarded
TickEach(r) == TickBy(r, ProgressStep)

\* compressImage(file): the result object, with a fresh object URL
compressImage(file, level, url) ==
    [url |-> url, originalSize |-> FileSize(file),
     compressedSize |-> CompressedSize(file, level)]

ResultPatchResetProgress(result) == result @@ [processing |-> FALSE, progress |-> 0]

ResultPatchKeepUrl(result) ==
    [k \in DOMAIN result \ {"url"} |-> result[k]]
        @@ [processing |-> FALSE, progress |-> ProgressMax]

ResultPatchKeepProcessing(result) == result @@ [progress |-> ProgressMax]

\* { ...img, ...compressedResult, processing: false, progress: 100 }
ResultPatch(result) == result @@ [processing |-> FALSE, progress |-> ProgressMax]

HangAfterItem(run, ok) ==
    IF ~ok THEN [run EXCEPT !.pc = "sim"]
    ELSE IF run.i < Len(run.items) THEN [run EXCEPT !.pc = "pace"]
    ELSE IdleRun

AbortAfterItem(run, ok) ==
    IF ok /\ run.i < Len(run.items)
    THEN [run EXCEPT !.pc = "pace"]
    ELSE IdleRun

\* the end of a loop body: the pacing delay unless this was the last index
AfterItem(run, ok) ==
    IF run.i < Len(run.items)
    THEN [run EXCEPT !.pc = "pace", !.failedAt = IF ok THEN @ ELSE run.i]
    ELSE IdleRun

\* the awaited imageCompression call settles; ok = it resolved
CompressReturn(r, ok) ==
    /\ runs[r].pc = "compress"
    /\ LET image == CurrentItem(r)
           result == compressImage(image.file, runs[r].level, nextUrl)
           run == AfterItem(runs[r], ok)
       IN /\ IF ok
             THEN /\ nextUrl' = nextUrl + 1
                  /\ revoked' = IF runs[r].kind = "change" /\ image.url # NoUrl
                                THEN Revoke(revoked, image.url)
                                ELSE revoked
                  /\ compressedImages' =
                        UpdateById(compressedImages, image.id, ResultPatch(result))
                  /\ lastFailed' = lastFailed \ {image.id}
                  /\ settled' = IF image.id \in ImageIds(compressedImages)
                                THEN settled \cup {image.id}
                                ELSE settled
                  /\ UNCHANGED failures
             ELSE /\ failures < MaxFailures
                  /\ failures' = failures + 1
                  /\ lastFailed' = lastFailed \cup {image.id}
                  /\ UNCHANGED <<nextUrl, revoked, compressedImages, settled>>
          /\ runs' = [runs EXCEPT ![r] = run]
          /\ loading' = IF run.pc = "idle" THEN FALSE ELSE loading
    /\ lastCall' = NoCall
    /\ UNCHANGED <<uploadProgress, compressionLevel, timers, nextId, removed, removedUrls,
                   batchOf, calls, removes>>

\* the 300 ms pacing timer fires: the loop goes on with the next index
Pace(r) ==
    /\ runs[r].pc = "pace"
    /\ LET items == runs[r].items
           j == IF runs[r].kind = "change"
                THEN NextWithFile(items, runs[r].i + 1)
                ELSE runs[r].i + 1
       IN IF j > Len(items)
          THEN /\ runs' = [runs EXCEPT ![r] = IdleRun]
               /\ loading' = FALSE
               /\ UNCHANGED <<uploadProgress, compressedImages, timers>>
          ELSE /\ runs' = [runs EXCEPT ![r].pc = "sim", ![r].i = j, ![r].progress = 0]
               /\ timers' = Append(timers, r)
               /\ uploadProgress' = ForwardProgress(uploadProgress, items[j].id, 0)
               /\ compressedImages' =
                     IF runs[r].kind = "change"
                     THEN UpdateById(compressedImages, items[j].id,
                                     [processing |-> TRUE, progress |-> 0])
                     ELSE compressedImages
               /\ UNCHANGED loading
    /\ lastCall' = NoCall
    /\ UNCHANGED <<compressionLevel, nextId, nextUrl, revoked, removed, removedUrls,
                   lastFailed, settled, batchOf, calls, removes, failures>>

\* removeImage(imageId)
removeImageUpTo(imageId, limit) ==
    /\ removes < limit
    /\ imageId < nextId
    /\ removes' = removes + 1
    /\ compressedImages' = FilterOutId(compressedImages, imageId)
    /\ revoked' = IF imageId \in ImageIds(compressedImages)
                     /\ FindImage(compressedImages, imageId).url # NoUrl
                  THEN Revoke(revoked, FindImage(compressedImages, imageId).url)
                  ELSE revoked
    /\ removedUrls' = IF imageId \in ImageIds(compressedImages)
                         /\ FindImage(compressedImages, imageId).url # NoUrl
                      THEN removedUrls \cup {FindImage(compressedImages, imageId).url}
                      ELSE removedUrls
    /\ removed' = removed \cup {imageId}
    /\ lastCall' = [op |-> "removeImage", acceptedFiles |-> <<>>, alert |-> NoAlert,
                    imageId |-> imageId]
    /\ UNCHANGED <<loading, uploadProgress, compressionLevel, runs, timers, nextId,
                   nextUrl, lastFailed, settled, batchOf, calls, failures>>

removeImage(imageId) == removeImageUpTo(imageId, MaxRemoves)

\* removeImage where the id of an earlier call can be given again
removeImageAgain(imageId) == removeImageUpTo(imageId, MaxRemovesAgain)

\* the argument lists the user can drop
RECURSIVE SeqsUpTo(_)
SeqsUpTo(n) ==
    IF n = 0 THEN {<<>>}
    ELSE SeqsUpTo(n - 1) \cup {Append(s, f) : s \in {t \in SeqsUpTo(n - 1) : Len(t) = n - 1}, f \in Files}

Next ==
    \/ \E r \in Slots, acceptedFiles \in SeqsUpTo(MaxFiles) : onDrop(r, acceptedFiles)
    \/ \E r \in Slots, newLevel \in TargetLevels : handleCompressionChange(r, newLevel)
    \/ \E r \in Slots : Tick(r)
    \/ \E r \in Slots, ok \in BOOLEAN : CompressReturn(r, ok)
    \/ \E r \in Slots : Pace(r)
    \/ \E imageId \in Ids : removeImage(imageId)

Spec == Init /\ [][Next]_vars

\* the steps the program takes by itself once a handler was called: timers
\* fire and compression calls settle
Internal == \E r \in Slots : Tick(r) \/ CompressReturn(r, TRUE) \/ Pace(r)

\* no removeImage call and no rejected compression; every timer fires and
\* every compression call returns
NextQuiet ==
    \/ \E r \in Slots, acceptedFiles \in SeqsUpTo(MaxFiles) : onDrop(r, acceptedFiles)
    \/ \E r \in Slots, newLevel \in TargetLevels : handleCompressionChange(r, newLevel)
    \/ \E r \in Slots : Tick(r)
    \/ \E r \in Slots : CompressReturn(r, TRUE)
    \/ \E r \in Slots : Pace(r)

FairQuiet == Init /\ [][NextQuiet]_vars /\ WF_vars(Internal)

\* every timer of simulateProgress is a step of its own; fewer handler calls
\* and no rejected compression
NextEach ==
    \/ \E r \in Slots, acceptedFiles \in SeqsUpTo(MaxFiles) :
          calls < MaxCallsEach /\ onDrop(r, acceptedFiles)
    \/ \E r \in Slots, newLevel \in TargetLevels :
          calls < MaxCallsEach /\ handleCompressionChange(r, newLevel)
    \/ \E r \in Slots : TickEach(r)
    \/ \E r \in Slots : CompressReturn(r, TRUE)
    \/ \E r \in Slots : Pace(r)
    \/ \E imageId \in Ids : removeImage(imageId)

SpecEach == Init /\ [][NextEach]_vars

\* removeImage can be called a second time, also with the id it was called
\* with before; fewer handler calls
NextAgain ==
    \/ \E r \in Slots, acceptedFiles \in SeqsUpTo(MaxFiles) :
          calls < MaxCallsEach /\ onDrop(r, acceptedFiles)
    \/ \E r \in Slots, newLevel \in TargetLevels :
          calls < MaxCallsEach /\ handleCompressionChange(r, newLevel)
    \/ \E r \in Slots : Tick(r)
    \/ \E r \in Slots, ok \in BOOLEAN : CompressReturn(r, ok)
    \/ \E r \in Slots : Pace(r)
    \/ \E imageId \in Ids : removeImageAgain(imageId)

SpecAgain == Init /\ [][NextAgain]_vars

\* removals and rejected compressions happen; every timer fires and every
\* compression call returns
FairAgain == SpecAgain /\ WF_vars(Internal)

\* ------------------------------------------------------------------ claims
AllIdle == \A r \in Slots : ~Active(r)
Running(r) == runs[r].pc \in {"sim", "compress"}
RunningIds == {CurrentItem(r).id : r \in {q \in Slots : Running(q)}}
InStore(id) == id \in ImageIds(compressedImages)
LiveUrls == {u \in 1..(nextUrl - 1) : revoked[u] = 0}
\* the run r stores a compression result in this step
Resolves(r) == runs[r].pc = "compress" /\ runs'[r] # runs[r] /\ nextUrl' = nextUrl + 1
\* the compression call of run r fails in this step
Rejects(r) == runs[r].pc = "compress" /\ runs'[r] # runs[r] /\ failures' = failures + 1

\* C1: in every reachable state at most one item is being run (simulated
\* progress or compression), whatever the interleaving of onDrop,
\* handleCompressionChange and removeImage calls.
C1_AtMostOneItemRunning == Cardinality(RunningIds) <= 1

\* C2: when every call has drained and no item was removed, every item of
\* the store has reached a terminal status (done or failed); none is left
\* pending or processing.
C2_AllItemsSettle ==
    (AllIdle /\ removed = {}) =>
        \A k \in 1..Len(compressedImages) :
            Status(compressedImages[k]) \in {"done", "failed"}

\* C3: a step in which the compression call for a stored item fails keeps
\* the item in the store and gives it the status failed.
C3_FailedItemShownFailed ==
    [][\A r \in Slots :
          (Rejects(r) /\ InStore(CurrentItem(r).id)) =>
              /\ CurrentItem(r).id \in ImageIds(compressedImages')
              /\ Status(FindImage(compressedImages', CurrentItem(r).id)) = "failed"]_vars

\* C4: a compression failure never aborts the batch: after a failure for a
\* non-last index the run waits the pacing delay and then starts the next
\* index, and a run only ends (loading set to false) after the compression
\* call of its last index, with every index attempted.
C4_FailureDoesNotAbortBatch ==
    [][\A r \in Slots :
          /\ (Rejects(r) /\ runs[r].i < Len(runs[r].items)) =>
                /\ runs'[r].pc = "pace"
                /\ runs'[r].i = runs[r].i
                /\ runs'[r].items = runs[r].items
          /\ (runs[r].pc = "pace" /\ runs'[r] # runs[r]) =>
                /\ runs'[r].pc = "sim"
                /\ runs'[r].i = runs[r].i + 1
                /\ runs'[r].items = runs[r].items
          /\ (Active(r) /\ runs'[r].pc = "idle") =>
                /\ runs[r].pc = "compress"
                /\ runs[r].i = Len(runs[r].items)
                /\ runs[r].attempted = Len(runs[r].items)
                /\ loading' = FALSE]_vars

\* a later index of a run is being compressed after an earlier index of the
\* same run failed
C4_Witness ==
    \E r \in Slots :
        /\ runs[r].pc = "compress"
        /\ runs[r].failedAt > 0
        /\ runs[r].i > runs[r].failedAt

\* C5: once removeImage(id) has been applied, no item with that id is in
\* the store in any later state.
C5_RemovedNeverPresent == \A id \in removed : ~InStore(id)

\* the only item was removed while it was processed, its compression
\* resolved afterwards, and the store ended empty
C5_Witness ==
    /\ removed = {1}
    /\ nextId = 2
    /\ nextUrl = 2
    /\ revoked[1] = 0
    /\ AllIdle
    /\ compressedImages = <<>>

\* C6: an object URL released by removeImage is released exactly once over
\* the whole execution.
C6_RemoveReleasesOnce == \A u \in removedUrls : revoked[u] = 1

\* C7: after removeImage(id) no step writes the uploadProgress entry of id.
C7_NoProgressWriteAfterRemove ==
    [][\A id \in removed : uploadProgress'[id] = uploadProgress[id]]_vars

\* C8: every live object URL (created, not revoked) is the url of an item
\* of the store, and no two items own the same live URL.
C8_NoHandleLeak ==
    /\ \A u \in LiveUrls :
          \E k \in 1..Len(compressedImages) : compressedImages[k].url = u
    /\ \A k, m \in 1..Len(compressedImages) :
          (k # m /\ compressedImages[k].url # NoUrl) =>
              compressedImages[k].url # compressedImages[m].url

\* C9: whenever a stored item's object URL is replaced by a new one, the
\* previous URL has been released exactly once by the time the new one is
\* stored.
C9_OldHandleReleasedOnce ==
    [][\A k \in 1..Len(compressedImages) :
          LET old == compressedImages[k].url
              id == compressedImages[k].id
          IN (/\ old # NoUrl
              /\ id \in ImageIds(compressedImages')
              /\ FindImage(compressedImages', id).url # old)
             => revoked'[old] = 1]_vars

\* C10: a result stored by the replay of handleCompressionChange(newLevel)
\* has its compressedSize computed with the options of newLevel.
C10_ReplayUsesNewLevel ==
    [][\A r \in Slots :
          (/\ Resolves(r)
           /\ runs[r].kind = "change"
           /\ CurrentItem(r).id \in ImageIds(compressedImages'))
          => FindImage(compressedImages', CurrentItem(r).id).compressedSize
                = CompressedSize(CurrentItem(r).file, runs[r].newLevel)]_vars

IsDone(id) == InStore(id) /\ Status(FindImage(compressedImages, id)) = "done"
\* some replay of handleCompressionChange still holds id in its snapshot
Replaying(id) ==
    \E r \in Slots :
        /\ Active(r)
        /\ runs[r].kind = "change"
        /\ \E k \in 1..Len(runs[r].items) : runs[r].items[k].id = id
StoreIds == [k \in 1..Len(compressedImages) |-> compressedImages[k].id]

\* C11: without removal and without compression failure, every item a
\* handleCompressionChange replay took over is eventually in status done
\* again, and no step of a replay changes which items the store holds.
C11_ReplayEndsDone ==
    /\ \A id \in Ids : Replaying(id) ~> (IsDone(id) /\ ~Replaying(id))
    /\ [][\A r \in Slots :
             (runs[r].kind = "change" /\ Active(r) /\ runs'[r] # runs[r])
                 => StoreIds' = StoreIds]_vars

\* two items were done, a replay ran over both and released their previous
\* URLs, and both are done again
C11_Witness ==
    /\ AllIdle
    /\ removed = {} /\ failures = 0
    /\ Len(compressedImages) = 2
    /\ \A id \in 1..2 : IsDone(id)
    /\ revoked[1] = 1 /\ revoked[2] = 1

\* C12: for every item of the store, processing is false exactly when its
\* progress is 100 and its url is set.
C12_DoneIffProgressAndUrl ==
    \A k \in 1..Len(compressedImages) :
        (~compressedImages[k].processing)
            <=> (compressedImages[k].progress = ProgressMax
                 /\ compressedImages[k].url # NoUrl)

\* C13: no item is being run (simulated or compressed) by two handler
\* invocations at the same time.
C13_OneRunPerItem ==
    \A r1, r2 \in Slots :
        (r1 # r2 /\ Running(r1) /\ Running(r2))
            => CurrentItem(r1).id # CurrentItem(r2).id

\* C14: of two items accepted by the same onDrop call, the one given first
\* reaches its terminal status no later than the other: when the later one
\* has been stored as done, the earlier one (unless removed) has been too.
C14_SettleInSubmissionOrder ==
    \A i, j \in Ids :
        (/\ i < j
         /\ batchOf[i] # 0 /\ batchOf[i] = batchOf[j]
         /\ i \notin removed
         /\ j \in settled)
        => i \in settled

\* the replay run r starts a new run for the item id in this step
StartsReplayOf(r, id) ==
    /\ runs'[r] # runs[r]
    /\ runs'[r].kind = "change"
    /\ runs'[r].pc = "sim"
    /\ runs'[r].progress = 0
    /\ runs'[r].items[runs'[r].i].id = id

\* C15 as stated: the progress of an item never decreases while it is in
\* the store, also across a replay.
C15_ProgressNeverDecreases ==
    [][\A k \in 1..Len(compressedImages) :
          compressedImages[k].id \in ImageIds(compressedImages')
              => FindImage(compressedImages', compressedImages[k].id).progress
                    >= compressedImages[k].progress]_vars

\* C15 amended: the progress of an item decreases only in the step in which
\* a handleCompressionChange replay starts a new run for it, and then to 0.
C15_ProgressDecreasesOnlyOnReplay ==
    [][\A k \in 1..Len(compressedImages) :
          LET id == compressedImages[k].id
          IN (/\ id \in ImageIds(compressedImages')
              /\ FindImage(compressedImages', id).progress < compressedImages[k].progress)
             => /\ FindImage(compressedImages', id).progress = 0
                /\ \E r \in Slots : StartsReplayOf(r, id)]_vars

\* an item that had been stored as done is back at progress 0
C15_Witness ==
    \E k \in 1..Len(compressedImages) :
        /\ compressedImages[k].id \in settled
        /\ compressedImages[k].progress = 0

\* the positions of the argument of an onDrop call that hold a JPEG file
JpegPositions(acceptedFiles) ==
    {k \in 1..Len(acceptedFiles) : FileType(acceptedFiles[k]) = "image/jpeg"}
RejectedCount(acceptedFiles) == Len(acceptedFiles) - Cardinality(JpegPositions(acceptedFiles))
\* the numbers of rejected files an alert (or its absence) is compatible with
CountsToldBy(alert) == IF alert = NoAlert THEN {0} ELSE 1..MaxFiles
\* the step is an onDrop call that adds n fresh items, processing and at
\* progress 0, in front of the store, for JPEG files only
EnqueuesAccepted(n) ==
    /\ Len(compressedImages') = Len(compressedImages) + n
    /\ \A k \in 1..Len(compressedImages) : compressedImages'[n + k] = compressedImages[k]
    /\ \A k \in 1..n :
          /\ FileType(compressedImages'[k].file) = "image/jpeg"
          /\ compressedImages'[k].processing
          /\ compressedImages'[k].progress = 0
          /\ compressedImages'[k].url = NoUrl
          /\ compressedImages'[k].id \notin ImageIds(compressedImages)
          /\ \A m \in 1..n : m # k => compressedImages'[m].id # compressedImages'[k].id

JpegPosition(acceptedFiles, k) ==
    CHOOSE p \in JpegPositions(acceptedFiles) :
        Cardinality({q \in JpegPositions(acceptedFiles) : q < p}) = k - 1

\* C17: after onDrop the store is the new items, in the order their files
\* were given, followed by the previous items unchanged; the call's loop
\* takes the new items in that same order, one index after the other, and
\* ends only after the last one.
C17_NewestFirstRunInOrder ==
    [][/\ lastCall'.op = "onDrop" =>
             LET acceptedFiles == lastCall'.acceptedFiles
                 n == Cardinality(JpegPositions(acceptedFiles))
             IN /\ Len(compressedImages') = Len(compressedImages) + n
                /\ \A k \in 1..n :
                      compressedImages'[k].file = acceptedFiles[JpegPosition(acceptedFiles, k)]
                /\ \A k \in 1..Len(compressedImages) :
                      compressedImages'[n + k] = compressedImages[k]
                /\ n > 0 =>
                      \E r \in Slots :
                          /\ runs[r].pc = "idle"
                          /\ runs'[r].pc = "sim"
                          /\ runs'[r].kind = "drop"
                          /\ runs'[r].i = 1
                          /\ Len(runs'[r].items) = n
                          /\ \A k \in 1..n :
                                /\ runs'[r].items[k].id = compressedImages'[k].id
                                /\ runs'[r].items[k].file = compressedImages'[k].file
       /\ \A r \in Slots :
             (runs[r].pc # "idle" /\ runs[r].kind = "drop") =>
                 IF runs'[r].pc = "idle"
                 THEN runs[r].i = Len(runs[r].items)
                 ELSE /\ runs'[r].items = runs[r].items
                      /\ runs'[r].i \in {runs[r].i, runs[r].i + 1}]_vars

\* the loop of onDrop([b.jpg, a.jpg]) has reached its second file
C17_Witness ==
    \E r \in Slots :
        /\ runs[r].kind = "drop"
        /\ runs[r].i = 2
        /\ runs[r].items[2].file = "a.jpg"
        /\ Len(compressedImages) = 2
        /\ compressedImages[1].file = "b.jpg"
        /\ compressedImages[2].file = "a.jpg"
        /\ compressedImages[1].id = runs[r].items[1].id

\* the loop of an onDrop call moves to its next index only when the pacing
\* timer fires, sets that timer only when the compression call of an index
\* before the last has returned, and returns straight after the last one
PacedLoop(r) ==
    /\ (runs[r].pc # "idle" /\ runs'[r].pc # "idle" /\ runs'[r].i # runs[r].i)
          => (runs[r].pc = "pace" /\ runs'[r].pc = "sim")
    /\ (runs[r].pc # "pace" /\ runs'[r].pc = "pace")
          => (runs[r].pc = "compress" /\ runs[r].i < Len(runs[r].items))
    /\ (runs[r].pc = "compress" /\ runs[r].i = Len(runs[r].items) /\ runs'[r] # runs[r])
          => runs'[r].pc = "idle"

\* C18: an onDrop call starts the simulated progress of its next item only
\* after the pacing delay that follows the previous item, which by then has
\* settled (shown done or failed); after the last item it awaits no delay.
C18_NextStartsAfterSettleAndPace ==
    [][\A r \in Slots :
          runs[r].kind = "drop" =>
              /\ PacedLoop(r)
              /\ (runs[r].pc = "pace" /\ runs'[r].pc = "sim") =>
                    LET id == runs[r].items[runs[r].i].id
                    IN id \in ImageIds(compressedImages)
                          => Status(FindImage(compressedImages, id)) \in {"done", "failed"}]_vars

\* C19: each loop of simulateProgress writes 0 when it starts (also when a
\* replay starts an item again), then the value 2 above the one before, each
\* in a step of its own that leaves it in uploadProgress, and ends only
\* after it has written 100.
C19_EveryValueInOrder ==
    [][\A r \in Slots :
          /\ (runs'[r].pc = "sim" /\ (runs[r].pc # "sim" \/ runs'[r].i # runs[r].i)) =>
                /\ runs'[r].progress = 0
                /\ uploadProgress'[runs'[r].items[runs'[r].i].id] = 0
          /\ (runs[r].pc = "sim" /\ runs'[r].pc = "sim" /\ runs'[r] # runs[r]) =>
                /\ runs'[r].i = runs[r].i
                /\ runs'[r].progress = runs[r].progress + 2
                /\ runs'[r].progress <= 100
                /\ uploadProgress'[runs[r].items[runs[r].i].id] = runs'[r].progress
          /\ (runs[r].pc = "sim" /\ runs'[r].pc # "sim") => runs[r].progress = 100]_vars

\* a replay has written 100 for an item whose first run had also ended
C19_Witness ==
    \E r \in Slots :
        /\ runs[r].pc = "sim"
        /\ runs[r].kind = "change"
        /\ runs[r].progress = 100
        /\ uploadProgress[runs[r].items[runs[r].i].id] = 100
        /\ runs[r].items[runs[r].i].id \in settled

\* C20: a result stored by the loop of an onDrop call has its compressedSize
\* computed with the options of the level that was selected when onDrop was
\* called.
C20_DropUsesCurrentLevel ==
    [][\A r \in Slots :
          (/\ Resolves(r)
           /\ runs[r].kind = "drop"
           /\ CurrentItem(r).id \in ImageIds(compressedImages'))
          => FindImage(compressedImages', CurrentItem(r).id).compressedSize
                = CompressedSize(CurrentItem(r).file, runs[r].newLevel)]_vars

\* C21: a removeImage(id) step leaves no item with that id in the store
\* whatever the item was doing, keeps every other item as it was and in its
\* place, and releases nothing but the removed item's object URL; when no
\* item has that id the store and the released URLs stay as they were.
C21_RemoveChangesOnlyThatItem ==
    [][lastCall'.op = "removeImage" =>
          LET id == lastCall'.imageId
              at == {k \in 1..Len(compressedImages) : compressedImages[k].id = id}
          IN /\ \A k \in 1..Len(compressedImages') : compressedImages'[k].id # id
             /\ IF at = {}
                THEN /\ compressedImages' = compressedImages
                     /\ revoked' = revoked
                ELSE LET k == CHOOSE k \in at : TRUE
                     IN /\ Len(compressedImages') = Len(compressedImages) - 1
                        /\ \A m \in 1..(k - 1) : compressedImages'[m] = compressedImages[m]
                        /\ \A m \in (k + 1)..Len(compressedImages) :
                              compressedImages'[m - 1] = compressedImages[m]
                        /\ \A u \in DOMAIN revoked :
                              u # compressedImages[k].url => revoked'[u] = revoked[u]
             /\ UNCHANGED <<runs, timers, uploadProgress, loading, compressionLevel>>]_vars

\* removeImage was called a second time with the same id while another item
\* is in the store
C21_Witness ==
    /\ lastCall.op = "removeImage"
    /\ removes = 2
    /\ removed = {lastCall.imageId}
    /\ Len(compressedImages) = 1

\* the ids of the items the loops are working on
TargetedIds == {runs[r].items[runs[r].i].id : r \in {q \in Slots : runs[q].pc # "idle"}}

\* C22: a step that is neither an onDrop nor a removeImage call keeps the
\* items of the store in place with their id and file, and changes at most
\* the one item a loop is working on (in the step before or after, for the
\* step in which a loop moves to its next item); no two items of the store
\* ever have the same id.
C22_UpdateInPlaceById ==
    [][/\ lastCall'.op = "none" =>
             /\ Len(compressedImages') = Len(compressedImages)
             /\ \A k \in 1..Len(compressedImages) :
                   /\ compressedImages'[k].id = compressedImages[k].id
                   /\ compressedImages'[k].file = compressedImages[k].file
                   /\ compressedImages'[k] # compressedImages[k]
                         => compressedImages[k].id \in TargetedIds \cup TargetedIds'
             /\ Cardinality({k \in 1..Len(compressedImages) :
                                compressedImages'[k] # compressedImages[k]}) <= 1
       /\ \A k, m \in 1..Len(compressedImages') :
             k # m => compressedImages'[k].id # compressedImages'[m].id]_vars

\* the result of the first of two dropped files was written: the first item
\* is done, the second still as it was enqueued
C22_Witness ==
    /\ lastCall.op = "none"
    /\ Len(compressedImages) = 2
    /\ Status(compressedImages[1]) = "done"
    /\ compressedImages[1].url # NoUrl
    /\ compressedImages[2].processing
    /\ compressedImages[2].progress = 0
    /\ compressedImages[2].url = NoUrl

\* C23: in every reachable state every item of the store that is shown done
\* has an object URL that was created and has not been revoked.
C23_DoneUrlNotRevoked ==
    \A k \in 1..Len(compressedImages) :
        Status(compressedImages[k]) = "done" =>
            /\ compressedImages[k].url \in 1..(nextUrl - 1)
            /\ revoked[compressedImages[k].url] = 0

\* a replay has stored a new result for the only item after it revoked the
\* URL of the result before
C23_Witness ==
    /\ Len(compressedImages) = 1
    /\ Status(compressedImages[1]) = "done"
    /\ compressedImages[1].url = 2
    /\ revoked[1] = 1

\* C24: loading is true exactly in the states in which the loop of some
\* onDrop or handleCompressionChange call has not yet ended.
C24_LoadingIffDraining == loading <=> (\E r \in Slots : Active(r))

\* C25: when every timer fires and every compression call returns, every
\* loop of onDrop and handleCompressionChange ends, also with rejected
\* compressions and removals in between, and setting loading to false as
\* it ends; the loop goes on to its next item whenever a compression call
\* returns, whether it resolved or rejected and whether or not the item is
\* still in the store, and by then the item is done, failed or removed.
C25_EveryRunEnds ==
    /\ (~AllIdle) ~> AllIdle
    /\ [][\A r \in Slots :
             /\ (Active(r) /\ runs'[r].pc = "idle") => loading' = FALSE
             /\ (runs[r].pc = "compress" /\ runs'[r] # runs[r]) =>
                   /\ runs'[r].pc = IF runs[r].i < Len(runs[r].items) THEN "pace" ELSE "idle"
                   /\ CurrentItem(r).id \in settled' \cup lastFailed' \cup removed']_vars

\* the first of two dropped files was removed before its compression
\* returned; both compressions resolved and the loop has ended with the
\* second item done
C25_Witness ==
    /\ AllIdle
    /\ ~loading
    /\ removed = {1}
    /\ batchOf[1] = batchOf[2]
    /\ nextUrl = 3
    /\ revoked[1] = 0
    /\ IsDone(2)

====
